---- MODULE Spec2Model ----
(***************************************************************************)
(* Model of docs/programming_for_experiments/semantics_task.py: a linear   *)
(* PsychoPy script that asks for a participant id, loads trials.csv,       *)
(* creates a result file, and presents six shuffled blocks of trials,      *)
(* appending one result row per trial.                                     *)
(*                                                                         *)
(* Representation choices.                                                 *)
(*  - A line of trials.csv is the sequence of its comma-separated fields   *)
(*    (what line.strip().split(',') returns: always at least one field).   *)
(*    Python's 0-based row[k] is Field(row, k).                            *)
(*  - A float is represented by its printed text (reaction times) or by a  *)
(*    count of clock ticks (core.getTime(): one tick per blocking wait).   *)
(*  - The keyboard buffer is reduced to what the script can observe of it: *)
(*    whether an unread 'escape' press is waiting in it.  kb.waitKeys      *)
(*    empties the buffer when it starts; core.wait leaves it alone.        *)
(***************************************************************************)
EXTENDS Integers, Sequences, FiniteSets, TLC

VARIABLES
    pc,          \* the statement the script is about to execute
    error,       \* the uncaught exception that ended the process, or "none"
    stdout,      \* messages printed
    dlgOK,       \* dlg.OK: "pending" until the dialog returns, then "yes"/"no"
    win,         \* the window: "none", "open", "closed"
    f,           \* what the name f is bound to
    trialsCsv,   \* the file trials.csv on disk (never written)
    data,        \* rows read from trials.csv
    outFile,     \* the result file on disk: exists, lines
    condition,   \* the shuffled list of condition names
    data_dict,   \* ordered dict: sequence of <<key, rows>>
    blk,         \* position of x in data_dict.keys() (0 before the loop)
    trial,       \* position of row in condition_data (0 before the first)
    stim_keys,   \* what the last trial key wait returned
    answer, rt, iscorrect,
    start_time,
    now,         \* core.getTime(), in ticks
    kbEscape,    \* an unread escape press is in the keyboard buffer
    presented,   \* rows whose stimuli were flipped onto the screen
    screen,      \* what the window shows
    lastWait     \* the blocking wait that returned most recently

vars == <<pc, error, stdout, dlgOK, win, f, trialsCsv, data, outFile, condition,
          data_dict, blk, trial, stim_keys, answer, rt, iscorrect, start_time,
          now, kbEscape, presented, screen, lastWait>>

(***************************************************************************)
(* Bounds of the model.                                                    *)
(***************************************************************************)
\* rows of trials.csv after the header
MaxRows == 2
\* keypresses one kb.waitKeys call returns
MaxKeys == 2

(***************************************************************************)
(* Values.                                                                 *)
(***************************************************************************)
\* a name that has not been assigned yet
Unbound == "<unbound>"
\* kb.waitKeys returned None
None == <<>>

\* line 61, before the shuffle
Conditions == <<"high", "low", "colour", "size", "texture", "shape">>

\* line 58
ResultHeader == <<"Condition", "Target", "Word1", "Word2", "Word3", "Answer",
                  "Correct Answer", "RT", "IsCorrect", "Time">>

\* keyList of the trial key wait, line 132
AnswerKeys == {"1", "2", "3"}

Range(s) == {s[i] : i \in 1..Len(s)}

\* row[k] of the source (0-based); the caller checks HasField first
Field(row, k) == row[k + 1]
\* row[k] raises IndexError when this is false
HasField(row, k) == k + 1 <= Len(row)

Digit == <<"0", "1", "2", "3", "4", "5", "6", "7", "8", "9">>
RECURSIVE PyStr(_)
\* str() of a non-negative integer, as an f-string formats it
PyStr(n) == IF n < 10 THEN Digit[n + 1]
            ELSE PyStr(n \div 10) \o Digit[(n % 10) + 1]

\* how many times r occurs in s
RECURSIVE Count(_, _)
Count(s, r) == IF s = <<>> THEN 0
               ELSE (IF Head(s) = r THEN 1 ELSE 0) + Count(Tail(s), r)

\* a comprehension without its condition
FilterKeepsAll(rows, c) == rows

\* [row for row in rows if row[0] == c]; row[0] always exists
RECURSIVE Filter(_, _)
Filter(rows, c) ==
    IF rows = <<>> THEN <<>>
    ELSE IF Field(Head(rows), 0) = c
         THEN <<Head(rows)>> \o Filter(Tail(rows), c)
         ELSE Filter(Tail(rows), c)

\* the outcomes of random.shuffle(s): every reordering of s
Shuffles(s) ==
    LET n == Len(s)
        Bij == {p \in [1..n -> 1..n] : \A i, j \in 1..n : p[i] = p[j] => i = j}
    IN  {[i \in 1..n |-> s[p[i]]] : p \in Bij}

\* a shuffle that draws with replacement: names may be lost and repeated
ShuffledConditionsWithRepeats ==
    {[i \in 1..Len(Conditions) |-> Conditions[p[i]]] :
        p \in [1..Len(Conditions) -> 1..Len(Conditions)]}

\* line 62: random.shuffle(condition)
ShuffledConditions == Shuffles(Conditions)

\* a shuffle that draws with replacement: rows may be lost and repeated
ShuffledRowsWithRepeats(rows) ==
    {[i \in 1..Len(rows) |-> rows[p[i]]] : p \in [1..Len(rows) -> 1..Len(rows)]}

\* line 98: random.shuffle(condition_data)
ShuffledRows(rows) == Shuffles(rows)

(***************************************************************************)
(* Inputs: the trial files the session may find on disk.                   *)
(***************************************************************************)
\* Sample trial files (the lines after the header).  Between them: the two
\* rows of the end-to-end example, rows of three conditions, two different
\* rows of one condition, a correct-answer field that is empty, the same line
\* twice, an empty line, a line of an unknown condition, and lines with four
\* and five fields.
SampleFiles ==
    { << <<"high", "cat", "dog", "fish", "kitten", "1">>,
         <<"size", "truck", "bus", "car", "bike", "2">>,
         <<"colour", "sky", "sea", "sun", "ivy", "2">> >>,
      << <<"high", "sea", "lake", "hill", "road", "">>,
         <<"high", "cat", "dog", "fish", "kitten", "1">>,
         <<"mood", "joy", "glee", "rage", "calm", "3">> >>,
      << <<"size", "truck", "bus", "car", "bike", "2">>,
         <<"size", "truck", "bus", "car", "bike", "2">>,
         <<"">> >>,
      << <<"">>,
         <<"high", "cat", "dog", "fish", "kitten", "1">>,
         <<"mood", "joy", "glee", "rage", "calm", "3">> >>,
      << <<"low", "pen", "ink", "cup">>,
         <<"shape", "ant", "bee", "elk", "cow">>,
         <<"high", "cat", "dog", "fish", "kitten", "1">> >>,
      << <<"colour", "sky", "sea", "sun", "ivy", "2">>,
         <<"shape", "ant", "bee", "elk", "cow">>,
         <<"">> >> }

\* trials.csv is missing, or holds the first n <= MaxRows lines of a sample
TrialFiles ==
    UNION {{[exists |-> TRUE, rows |-> SubSeq(s, 1, n)] :
               n \in 0..(IF MaxRows < Len(s) THEN MaxRows ELSE Len(s))} :
           s \in SampleFiles}
    \cup {[exists |-> FALSE, rows |-> <<>>]}

\* the answer keys the participant uses in the sessions explored
PressedKeys == AnswerKeys \ {"3"}

\* the result file before open(filename, 'w')
NoFile == [exists |-> FALSE, lines |-> <<>>]

\* key.rt of the i-th keypress a key wait returns, as printed
RtText(i) == "0." \o PyStr(i)

\* the keypress lists kb.waitKeys(keyList=names) can return: 1..MaxKeys
\* presses in the order they were made, a key at most once in one list
KeyLists(names) ==
    {k \in UNION {[1..n -> names] : n \in 1..MaxKeys} :
        \A i, j \in 1..Len(k) : k[i] = k[j] => i = j}

\* the KeyPress objects of a returned list: name and rt
Presses(keys) == [i \in 1..Len(keys) |-> [name |-> keys[i], rt |-> RtText(i)]]

KeyNames(keys) == {keys[i].name : i \in 1..Len(keys)}

Init ==
    /\ pc = "dialog"
    /\ error = "none"
    /\ stdout = <<>>
    /\ dlgOK = "pending"
    /\ win = "none"
    /\ f = Unbound
    /\ trialsCsv \in TrialFiles
    /\ data = <<>>
    /\ outFile = NoFile
    /\ condition = Conditions
    /\ data_dict = <<>>
    /\ blk = 0
    /\ trial = 0
    /\ stim_keys = None
    /\ answer = Unbound
    /\ rt = Unbound
    /\ iscorrect = Unbound
    /\ start_time = 0
    /\ now = 0
    /\ kbEscape = FALSE
    /\ presented = <<>>
    /\ screen = "none"
    /\ lastWait = "none"

(***************************************************************************)
(* Helpers of the script.                                                  *)
(***************************************************************************)
\* a terminate() that forgets f.close()
terminateLeavesFileOpen ==
    /\ win' = "closed"
    /\ f' = f
    /\ stdout' = Append(stdout, "Experiment terminated by user.")
    /\ pc' = "terminated"

\* lines 10-14: terminate()
terminate ==
    /\ win' = "closed"
    /\ f' = "closed"
    /\ stdout' = Append(stdout, "Experiment terminated by user.")
    /\ pc' = "terminated"

\* an escape check that never finds the escape
check_for_escape_blind(buffered) == FALSE

\* lines 17-19: kb.getKeys(['escape']) is non-empty iff an escape is buffered
check_for_escape(buffered) == buffered

\* line 101-104
Similarity(x) == IF x = "high" \/ x = "low" THEN "meaning" ELSE x

\* a test against the last name of the list as written in line 61
AfterTrialsUnshuffled(b) ==
    IF data_dict[b][1] # Field(Conditions, 5) THEN "break"
    ELSE IF b < Len(data_dict) THEN "brief"
    ELSE "end"

\* line 161 and the for statement of line 95: where control goes when the
\* trials of block b are over
AfterTrials(b) ==
    IF data_dict[b][1] # Field(condition, 5) THEN "break"
    ELSE IF b < Len(data_dict) THEN "brief"
    ELSE "end"

\* a write at the start of the file
WriteFirst(lines, line) == <<line>> \o lines

\* a write that starts again after the header instead of appending
WriteOver(lines, line) == <<lines[1], line>>

\* line 153: f.write on the file opened in line 57 appends to what is there
Write(lines, line) == Append(lines, line)

\* line 153: the f-string written for row
ResultLine(row, ans, r, ok, t) ==
    <<Field(row, 0), Field(row, 1), Field(row, 2), Field(row, 3), Field(row, 4),
      ans, Field(row, 5), r, PyStr(ok), PyStr(t)>>

(***************************************************************************)
(* The script, one action per stretch of code between blocking waits.      *)
(***************************************************************************)
\* a cancel branch that does not leave the script
DialogCancelFallsThrough ==
    /\ pc = "dialog"
    /\ dlgOK' = "no"
    /\ lastWait' = "dialog"
    /\ stdout' = Append(stdout, "User cancelled the experiment")
    /\ win' = "open"
    /\ pc' = "load"
    /\ UNCHANGED <<error, f, trialsCsv, data, outFile, condition, data_dict, blk,
                   trial, stim_keys, answer, rt, iscorrect, start_time, now,
                   kbEscape, presented, screen>>

\* lines 33-42, dialog cancelled: print, then f.close() on a name that is
\* not bound yet
DialogCancel ==
    /\ pc = "dialog"
    /\ dlgOK' = "no"
    /\ lastWait' = "dialog"
    /\ stdout' = Append(stdout, "User cancelled the experiment")
    /\ IF f = Unbound
       THEN /\ error' = "NameError"
            /\ pc' = "error"
            /\ f' = f
       ELSE /\ f' = "closed"
            /\ pc' = "quit"
            /\ error' = error
    /\ UNCHANGED <<win, trialsCsv, data, outFile, condition, data_dict, blk,
                   trial, stim_keys, answer, rt, iscorrect, start_time, now,
                   kbEscape, presented, screen>>

\* lines 33-46, dialog accepted: the window is created
DialogOK ==
    /\ pc = "dialog"
    /\ dlgOK' = "yes"
    /\ lastWait' = "dialog"
    /\ win' = "open"
    /\ pc' = "load"
    /\ UNCHANGED <<error, stdout, f, trialsCsv, data, outFile, condition,
                   data_dict, blk, trial, stim_keys, answer, rt, iscorrect,
                   start_time, now, kbEscape, presented, screen>>

\* a loader that takes a missing file for an empty one
LoadTrialsIgnoresMissing ==
    /\ pc = "load"
    /\ f' = "trials.csv, closed"
    /\ data' = trialsCsv.rows
    /\ pc' = "create"
    /\ UNCHANGED <<error, stdout, dlgOK, win, trialsCsv, outFile, condition,
                   data_dict, blk, trial, stim_keys, answer, rt, iscorrect,
                   start_time, now, kbEscape, presented, screen, lastWait>>

\* lines 49-53: read trials.csv
LoadTrials ==
    /\ pc = "load"
    /\ IF ~trialsCsv.exists
       THEN /\ error' = "FileNotFoundError"
            /\ pc' = "error"
            /\ UNCHANGED <<f, data>>
       ELSE /\ f' = "trials.csv, closed"
            /\ data' = trialsCsv.rows
            /\ pc' = "create"
            /\ error' = error
    /\ UNCHANGED <<stdout, dlgOK, win, trialsCsv, outFile, condition, data_dict,
                   blk, trial, stim_keys, answer, rt, iscorrect, start_time, now,
                   kbEscape, presented, screen, lastWait>>

\* a dict whose keys come in the order of line 61, whatever the shuffle
BuildDictUnshuffled(cond, rows) ==
    [i \in 1..Len(Conditions) |-> <<Conditions[i], Filter(rows, Conditions[i])>>]

\* line 64: the dict comprehension, keys in the order of cond
BuildDict(cond, rows) ==
    [i \in 1..Len(cond) |-> <<cond[i], Filter(rows, cond[i])>>]

\* lines 56-70: create the result file, shuffle the conditions, bucket the
\* rows, show the welcome text
CreateOutput ==
    /\ pc = "create"
    /\ f' = "results, open"
    /\ outFile' = [exists |-> TRUE, lines |-> <<ResultHeader>>]
    /\ \E c \in ShuffledConditions :
         /\ condition' = c
         /\ data_dict' = BuildDict(c, data)
    /\ screen' = "welcome"
    /\ pc' = "start"
    /\ UNCHANGED <<error, stdout, dlgOK, win, trialsCsv, data, blk, trial,
                   stim_keys, answer, rt, iscorrect, start_time, now, kbEscape,
                   presented, lastWait>>

\* lines 72-80: wait for space or escape, then draw the fixation cross
StartScreen ==
    /\ pc = "start"
    /\ lastWait' = "start"
    /\ now' = now + 1
    /\ start_time' = now + 1
    /\ kbEscape' = FALSE
    /\ \E k \in KeyLists({"space", "escape"}) :
         IF "escape" \in KeyNames(Presses(k))
         THEN terminate /\ screen' = "closed"
         ELSE /\ screen' = "fixation"
              /\ pc' = "initfix"
              /\ UNCHANGED <<win, f, stdout>>
    /\ UNCHANGED <<error, dlgOK, trialsCsv, data, outFile, condition, data_dict,
                   blk, trial, stim_keys, answer, rt, iscorrect, presented>>

\* lines 81-82: the initial five seconds, then the escape check
InitialFixation ==
    /\ pc = "initfix"
    /\ lastWait' = "initfix"
    /\ now' = now + 1
    /\ \E esc \in BOOLEAN :
         IF check_for_escape(kbEscape \/ esc)
         THEN terminate /\ screen' = "closed" /\ kbEscape' = FALSE
         ELSE /\ pc' = "brief"
              /\ kbEscape' = (kbEscape \/ esc)
              /\ UNCHANGED <<win, f, stdout, screen>>
    /\ UNCHANGED <<error, dlgOK, trialsCsv, data, outFile, condition, data_dict,
                   blk, trial, stim_keys, answer, rt, iscorrect, start_time,
                   presented>>

\* lines 95-111: next block: shuffle its rows, show the instructions, wait,
\* check for escape
BlockBrief ==
    /\ pc = "brief"
    /\ blk' = blk + 1
    /\ trial' = 0
    /\ lastWait' = "brief"
    /\ now' = now + 1
    /\ \E p \in ShuffledRows(data_dict[blk + 1][2]), esc \in BOOLEAN :
         /\ data_dict' = [data_dict EXCEPT ![blk + 1] = <<@[1], p>>]
         /\ IF check_for_escape(kbEscape \/ esc)
            THEN terminate /\ screen' = "closed" /\ kbEscape' = FALSE
            ELSE /\ pc' = IF p # <<>> THEN "trial" ELSE AfterTrials(blk + 1)
                 /\ screen' = "brief: " \o Similarity(data_dict[blk + 1][1])
                 /\ kbEscape' = (kbEscape \/ esc)
                 /\ UNCHANGED <<win, f, stdout>>
    /\ UNCHANGED <<error, dlgOK, trialsCsv, data, outFile, condition, stim_keys,
                   answer, rt, iscorrect, start_time, presented>>

\* a loop that keeps the reaction time of the first keypress of the list
RecordKeysFirstRt(keys, row, st) ==
    IF keys = <<>> THEN st
    ELSE [answer |-> keys[Len(keys)].name,
          rt |-> Head(keys).rt,
          iscorrect |-> IF keys[Len(keys)].name = Field(row, 5) THEN 1 ELSE 0]

\* a loop that compares the answer with row[4], the third word
RECURSIVE RecordKeysWrongField(_, _, _)
RecordKeysWrongField(keys, row, st) ==
    IF keys = <<>> THEN st
    ELSE RecordKeysWrongField(Tail(keys), row,
                    [answer |-> Head(keys).name,
                     rt |-> Head(keys).rt,
                     iscorrect |-> IF Head(keys).name = Field(row, 4)
                                   THEN 1 ELSE 0])

\* lines 138-145: the loop over the returned keypresses; st is the value of
\* answer, rt and iscorrect before it.  The caller checks row[5] exists.
RECURSIVE RecordKeys(_, _, _)
RecordKeys(keys, row, st) ==
    IF keys = <<>> THEN st
    ELSE RecordKeys(Tail(keys), row,
                    [answer |-> Head(keys).name,
                     rt |-> Head(keys).rt,
                     iscorrect |-> IF Head(keys).name = Field(row, 5)
                                   THEN 1 ELSE 0])

\* a timeout branch that forgets to reset answer
RecordTimeoutStaleAnswer == [answer |-> answer, rt |-> "NA", iscorrect |-> 0]

\* a timeout branch that forgets to reset rt
RecordTimeoutStaleRt == [answer |-> "", rt |-> rt, iscorrect |-> 0]

\* lines 146-149: no key within maxWait
RecordTimeout == [answer |-> "", rt |-> "NA", iscorrect |-> 0]

\* what the trial key wait of line 132 can return
StimKeyOutcomes ==
    {None} \cup {Presses(k) : k \in KeyLists(PressedKeys \cup {"escape"})}

\* lines 114-157: one trial: set and draw the stimuli, wait for a key, record
\* the response, write the row, draw the fixation cross
Trial ==
    /\ pc = "trial"
    /\ trial' = trial + 1
    /\ LET row == data_dict[blk][2][trial + 1]
           trial_time == now
       IN  IF ~HasField(row, 4)
           THEN \* lines 116-120: row[1]..row[4], IndexError before the flip
                /\ error' = "IndexError"
                /\ pc' = "error"
                /\ UNCHANGED <<stdout, win, f, outFile, stim_keys, answer, rt,
                               iscorrect, now, kbEscape, presented, screen,
                               lastWait>>
           ELSE /\ presented' = Append(presented, row)
                /\ now' = now + 1
                /\ lastWait' = "trial"
                /\ kbEscape' = FALSE
                /\ \E keys \in StimKeyOutcomes :
                     /\ stim_keys' = keys
                     /\ IF keys # None /\ "escape" \in KeyNames(keys)
                        THEN /\ terminate
                             /\ screen' = "closed"
                             /\ UNCHANGED <<error, outFile, answer, rt, iscorrect>>
                        ELSE IF ~HasField(row, 5)
                        THEN \* row[5]: IndexError at line 141 or line 153
                             /\ error' = "IndexError"
                             /\ pc' = "error"
                             /\ screen' = "trial"
                             /\ answer' = IF keys = None THEN "" ELSE keys[1].name
                             /\ rt' = IF keys = None THEN "NA" ELSE keys[1].rt
                             /\ iscorrect' = IF keys = None THEN 0 ELSE iscorrect
                             /\ UNCHANGED <<stdout, win, f, outFile>>
                        ELSE LET st == IF keys = None THEN RecordTimeout
                                       ELSE RecordKeys(keys, row,
                                              [answer |-> answer, rt |-> rt,
                                               iscorrect |-> iscorrect])
                                 time == trial_time - start_time
                             IN  /\ answer' = st.answer
                                 /\ rt' = st.rt
                                 /\ iscorrect' = st.iscorrect
                                 /\ outFile' = [outFile EXCEPT !.lines =
                                       Write(@, ResultLine(row, st.answer, st.rt,
                                                           st.iscorrect, time))]
                                 /\ screen' = "fixation"
                                 /\ pc' = "pause"
                                 /\ UNCHANGED <<error, stdout, win, f>>
    /\ UNCHANGED <<dlgOK, trialsCsv, data, condition, data_dict, blk, start_time>>

\* line 158: the fixation pause after a trial; no escape check follows it
FixationPause ==
    /\ pc = "pause"
    /\ lastWait' = "pause"
    /\ now' = now + 1
    /\ \E esc \in BOOLEAN : kbEscape' = (kbEscape \/ esc)
    /\ pc' = IF trial < Len(data_dict[blk][2]) THEN "trial" ELSE AfterTrials(blk)
    /\ UNCHANGED <<error, stdout, dlgOK, win, f, trialsCsv, data, outFile,
                   condition, data_dict, blk, trial, stim_keys, answer, rt,
                   iscorrect, start_time, presented, screen>>

\* a break that is not followed by the escape check
BreakWithoutCheck ==
    /\ pc = "break"
    /\ lastWait' = "break"
    /\ now' = now + 1
    /\ \E esc \in BOOLEAN : kbEscape' = (kbEscape \/ esc)
    /\ pc' = IF blk < Len(data_dict) THEN "brief" ELSE "end"
    /\ screen' = "break"
    /\ UNCHANGED <<error, dlgOK, trialsCsv, data, outFile, condition, data_dict,
                   blk, trial, stim_keys, answer, rt, iscorrect, start_time,
                   presented, win, f, stdout>>

\* lines 161-167: the break between blocks, then the escape check
Break ==
    /\ pc = "break"
    /\ lastWait' = "break"
    /\ now' = now + 1
    /\ \E esc \in BOOLEAN :
         IF check_for_escape(kbEscape \/ esc)
         THEN terminate /\ screen' = "closed" /\ kbEscape' = FALSE
         ELSE /\ pc' = IF blk < Len(data_dict) THEN "brief" ELSE "end"
              /\ screen' = "break"
              /\ kbEscape' = (kbEscape \/ esc)
              /\ UNCHANGED <<win, f, stdout>>
    /\ UNCHANGED <<error, dlgOK, trialsCsv, data, outFile, condition, data_dict,
                   blk, trial, stim_keys, answer, rt, iscorrect, start_time,
                   presented>>

\* lines 170-178: the end message, five seconds, close the file and the window
EndScreen ==
    /\ pc = "end"
    /\ lastWait' = "end"
    /\ now' = now + 1
    /\ \E esc \in BOOLEAN : kbEscape' = (kbEscape \/ esc)
    /\ f' = "closed"
    /\ win' = "closed"
    /\ screen' = "closed"
    /\ pc' = "done"
    /\ UNCHANGED <<error, stdout, dlgOK, trialsCsv, data, outFile, condition,
                   data_dict, blk, trial, stim_keys, answer, rt, iscorrect,
                   start_time, presented>>

Next ==
    \/ DialogCancel
    \/ DialogOK
    \/ LoadTrials
    \/ CreateOutput
    \/ StartScreen
    \/ InitialFixation
    \/ BlockBrief
    \/ Trial
    \/ FixationPause
    \/ Break
    \/ EndScreen

Spec == Init /\ [][Next]_vars

(***************************************************************************)
(* Reading the result file.                                                *)
(***************************************************************************)
\* the result rows: the lines after the header
ResultRows == IF outFile.exists THEN Tail(outFile.lines) ELSE <<>>

\* columns of a result row (line 58)
AnswerOf(line) == line[6]
CorrectOf(line) == line[7]
RtOf(line) == line[8]
IsCorrectOf(line) == line[9]

Last(s) == s[Len(s)]

\* the process has ended
Halted == pc \in {"terminated", "done", "quit", "error"}

IsPrefix(a, b) == Len(a) <= Len(b) /\ SubSeq(b, 1, Len(a)) = a

\* the stimulus columns of a result row are those of the trial row
RowIsFor(line, row) ==
    /\ Len(row) >= 6
    /\ SubSeq(line, 1, 5) = SubSeq(row, 1, 5)
    /\ CorrectOf(line) = Field(row, 5)

\* the file is never rewritten: a step leaves it alone or adds lines at its end
AppendOnly ==
    /\ outFile.exists => outFile'.exists
    /\ IsPrefix(outFile.lines, outFile'.lines)

\* the trial on screen ended without a row: by an escape in its key wait ...
EscapedInTrial == pc = "terminated" /\ lastWait = "trial"
\* ... or by the IndexError of row[5] on a row of five fields
FailedInTrial == pc = "error" /\ error = "IndexError" /\ lastWait = "trial"

\* the rows of the file are those of the trials shown, in order, one each
RowsMatchTrials(pending) ==
    /\ Len(ResultRows) = Len(presented) - pending
    /\ \A i \in 1..Len(ResultRows) :
          i <= Len(presented) /\ RowIsFor(ResultRows[i], presented[i])

C2_CorrectIffEqual ==
    \A i \in 1..Len(ResultRows) :
        IsCorrectOf(ResultRows[i]) =
            (IF AnswerOf(ResultRows[i]) = CorrectOf(ResultRows[i])
             THEN "1" ELSE "0")

(***************************************************************************)
(* C2, amended.  In every result row, IsCorrect is 1 if and only if a key  *)
(* was pressed (Answer is not empty) and Answer equals Correct Answer, and *)
(* 0 otherwise: the row of a timed-out trial has IsCorrect 0 also when the *)
(* Correct Answer field is empty.                                          *)
(***************************************************************************)
C2_CorrectIffPressedAndEqual ==
    \A i \in 1..Len(ResultRows) :
        IsCorrectOf(ResultRows[i]) =
            (IF /\ AnswerOf(ResultRows[i]) # ""
                /\ AnswerOf(ResultRows[i]) = CorrectOf(ResultRows[i])
             THEN "1" ELSE "0")

\* a row with a right answer, then a timeout on an empty Correct Answer
C2_Witness ==
    /\ Len(ResultRows) = 2
    /\ IsCorrectOf(ResultRows[1]) = "1"
    /\ AnswerOf(ResultRows[2]) = ""
    /\ CorrectOf(ResultRows[2]) = ""
    /\ IsCorrectOf(ResultRows[2]) = "0"

(***************************************************************************)
(* C3.  When the trial key wait times out (kb.waitKeys returned None), the *)
(* row written for that trial has an empty Answer, RT "NA" and IsCorrect   *)
(* 0, whatever the earlier trials left in answer, rt and iscorrect.        *)
(***************************************************************************)
C3_TimeoutRow ==
    (pc = "pause" /\ stim_keys = None) =>
        /\ ResultRows # <<>>
        /\ AnswerOf(Last(ResultRows)) = ""
        /\ RtOf(Last(ResultRows)) = "NA"
        /\ IsCorrectOf(Last(ResultRows)) = "0"

\* a timeout in a trial that follows an answered, correct trial
C3_Witness ==
    /\ pc = "pause" /\ stim_keys = None
    /\ Len(ResultRows) = 2
    /\ AnswerOf(ResultRows[1]) = "1"
    /\ IsCorrectOf(ResultRows[1]) = "1"

(***************************************************************************)
(* C4.  Once an escape has been observed (at the start screen, in the      *)
(* check after the initial fixation, a block briefing or a break, or in a  *)
(* trial's key wait) the script has closed the window and the result file  *)
(* and has halted: no step follows, so no row is appended afterwards, and  *)
(* the trial that was on screen has no row.                                *)
(***************************************************************************)
C4_EscapeHalts ==
    pc = "terminated" =>
        /\ win = "closed"
        /\ f = "closed"
        /\ ~ENABLED Next
        /\ Len(ResultRows) =
             Len(presented) - (IF lastWait = "trial" THEN 1 ELSE 0)

\* escape pressed in the key wait of the second trial
C4_Witness ==
    /\ pc = "terminated"
    /\ lastWait = "trial"
    /\ Len(presented) = 2
    /\ Len(ResultRows) = 1

(***************************************************************************)
(* C5.  If the startup dialog is cancelled the process ends and has        *)
(* created neither the result file nor the window, and has not read        *)
(* trials.csv.                                                             *)
(***************************************************************************)
C5_CancelCreatesNothing ==
    dlgOK = "no" =>
        /\ Halted
        /\ ~outFile.exists
        /\ win = "none"
        /\ f = Unbound
        /\ data = <<>>

C5_Witness == dlgOK = "no" /\ trialsCsv.exists /\ trialsCsv.rows # <<>>

(***************************************************************************)
(* C6.  Cancelling the startup dialog is a clean exit: the message is      *)
(* printed and the process halts through core.quit() without an uncaught   *)
(* exception, no operation being made on a file handle that does not       *)
(* exist.                                                                  *)
(***************************************************************************)
C6_CancelIsCleanExit ==
    dlgOK = "no" =>
        /\ stdout = <<"User cancelled the experiment">>
        /\ error = "none"
        /\ pc = "quit"

\* line 64 has run
Bucketed == data_dict # <<>>

KeyOf(i) == data_dict[i][1]
BucketOf(i) == data_dict[i][2]

\* row is in one bucket only, the one of its condition field, as often as in
\* the file
InItsBucketOnly(row) ==
    LET n == Count(data, row)
    IN  /\ \E i \in 1..Len(data_dict) : KeyOf(i) = Field(row, 0)
        /\ \A i \in 1..Len(data_dict) :
              Count(BucketOf(i), row) = IF KeyOf(i) = Field(row, 0) THEN n ELSE 0

\* row is in none of the buckets
InNoBucket(row) == \A i \in 1..Len(data_dict) : Count(BucketOf(i), row) = 0

(***************************************************************************)
(* C7, as claimed.  Every row loaded, whatever its first field, is in      *)
(* exactly one of the six buckets, the one named by its condition field.   *)
(***************************************************************************)
C7_EveryRowBucketed ==
    Bucketed =>
        /\ Len(data_dict) = 6
        /\ \A k \in 1..Len(data) : InItsBucketOnly(data[k])

(***************************************************************************)
(* C7, amended.  Every row loaded whose first field is exactly one of the  *)
(* six condition names is in exactly one of the six buckets, the one named *)
(* by its condition field; a row with any other first field is in no       *)
(* bucket and is never presented.                                          *)
(***************************************************************************)
C7_KnownRowsBucketed ==
    Bucketed =>
        /\ Len(data_dict) = 6
        /\ \A k \in 1..Len(data) :
              IF Field(data[k], 0) \in Range(Conditions)
              THEN InItsBucketOnly(data[k])
              ELSE /\ InNoBucket(data[k])
                   /\ Count(presented, data[k]) = 0

\* a session run to its end on a file with a row of a known condition and a
\* row of none
C7_Witness ==
    /\ pc = "done"
    /\ \E k \in 1..Len(data) : Field(data[k], 0) \in Range(Conditions)
    /\ \E k \in 1..Len(data) : Field(data[k], 0) \notin Range(Conditions)

\* the rows of the file whose condition is one of the six
KnownRows == {data[k] : k \in {j \in 1..Len(data) :
                                  Field(data[j], 0) \in Range(Conditions)}}

\* how many result rows were written for the trial row
RowsWrittenFor(row) ==
    Cardinality({i \in 1..Len(ResultRows) : RowIsFor(ResultRows[i], row)})

\* bucket holds the rows loaded for condition c, each as often as the file
\* does, and nothing else
SameRowsAsLoaded(bucket, c) ==
    /\ Len(bucket) = Cardinality({k \in 1..Len(data) : Field(data[k], 0) = c})
    /\ \A j \in 1..Len(bucket) :
          /\ Field(bucket[j], 0) = c
          /\ Count(bucket, bucket[j]) = Count(data, bucket[j])

(***************************************************************************)
(* C8.  Shuffling only reorders: at any time each bucket holds the rows    *)
(* loaded for its condition, each as often as in the file; and when the    *)
(* session has run to its end, every bucketed row has been presented, and  *)
(* has had a row written, exactly as often as it is in the file, and       *)
(* nothing else has been presented.                                        *)
(***************************************************************************)
C8_ShuffleIsPermutation ==
    Bucketed =>
        /\ \A i \in 1..Len(data_dict) : SameRowsAsLoaded(BucketOf(i), KeyOf(i))
        /\ pc = "done" =>
              /\ \A row \in KnownRows :
                    /\ Count(presented, row) = Count(data, row)
                    /\ RowsWrittenFor(row) = Count(data, row)
              /\ Range(presented) = KnownRows

\* a finished session in which a block presented its two rows in the order
\* opposite to the file's
C8_Witness ==
    /\ pc = "done"
    /\ Len(data) = 2
    /\ presented = <<data[2], data[1]>>
    /\ Field(data[1], 0) = Field(data[2], 0)

\* the waits of the script that have returned, other than the dialog
AfterWait(waits) == lastWait \in waits

Malformed ==
    \/ ~trialsCsv.exists
    \/ \E k \in 1..Len(trialsCsv.rows) : Len(trialsCsv.rows[k]) < 6

(***************************************************************************)
(* C10, as claimed.  If trials.csv is missing or malformed (a line with    *)
(* fewer than six fields) the program fails at load time: the result file  *)
(* is never created, no trial is presented and no row is written.          *)
(***************************************************************************)
C10_FailsAtLoad ==
    Malformed =>
        /\ pc \in {"dialog", "load", "error", "quit"}
        /\ ~outFile.exists
        /\ presented = <<>>
        /\ ResultRows = <<>>

(***************************************************************************)
(* C10, amended.  If trials.csv is missing the program fails at load time  *)
(* (FileNotFoundError), before the result file is created and before any   *)
(* trial is presented or any row is written.  A line with fewer than six   *)
(* fields does not fail the load: the program fails (IndexError) only when *)
(* the trial of such a row is reached in the trial loop, after the result  *)
(* file has been created, and no row is written for that trial.            *)
(***************************************************************************)
C10_FailsAtLoadOnlyIfMissing ==
    /\ ~trialsCsv.exists =>
          /\ pc \in {"dialog", "load", "error"}
          /\ (pc = "error" /\ dlgOK = "yes") => error = "FileNotFoundError"
          /\ ~outFile.exists
          /\ presented = <<>>
          /\ ResultRows = <<>>
    /\ trialsCsv.exists =>
          /\ error # "FileNotFoundError"
          /\ pc = "error" =>
                \/ dlgOK = "no"
                \/ /\ error = "IndexError"
                   /\ outFile.exists
                   /\ trial \in 1..Len(BucketOf(blk))
                   /\ Len(BucketOf(blk)[trial]) < 6
                   /\ \A i \in 1..Len(ResultRows) :
                         ~IsPrefix(BucketOf(blk)[trial], ResultRows[i])
                   /\ Len(ResultRows) =
                        Len(presented) - (IF lastWait = "trial" THEN 1 ELSE 0)

\* the IndexError of a four-field row, raised while its stimuli are set, in a
\* session that has shown no trial yet
C10_Witness ==
    /\ error = "IndexError"
    /\ lastWait = "brief"
    /\ outFile.lines = <<ResultHeader>>
    /\ presented = <<>>

\* the two rows of the end-to-end example
HighRow == <<"high", "cat", "dog", "fish", "kitten", "1">>
SizeRow == <<"size", "truck", "bus", "car", "bike", "2">>

\* where e stands in the sequence s
IndexOf(s, e) == CHOOSE i \in 1..Len(s) : s[i] = e

\* the key wait that led to the result row returned the single press of key
SinglePress(line, key) == AnswerOf(line) = key /\ RtOf(line) = RtText(1)

\* the end-to-end session: the input is the two rows, key 1 alone was pressed
\* at the first trial presented and key 2 alone at the second
EndToEndSession ==
    /\ Len(ResultRows) = 2
    /\ data = <<HighRow, SizeRow>>
    /\ SinglePress(ResultRows[1], "1")
    /\ SinglePress(ResultRows[2], "2")

(***************************************************************************)
(* C11, as claimed.  With the two rows (high, cat, dog, fish, kitten, 1)   *)
(* and (size, truck, bus, car, bike, 2) as input, key 1 pressed at the     *)
(* first trial presented and key 2 at the second, the two result rows both *)
(* have IsCorrect 1, whatever order the shuffle gave the blocks.           *)
(***************************************************************************)
C11_EndToEndBothCorrect ==
    EndToEndSession =>
        /\ IsCorrectOf(ResultRows[1]) = "1"
        /\ IsCorrectOf(ResultRows[2]) = "1"

(***************************************************************************)
(* C11, amended.  With the same input and the same keypresses, the two     *)
(* result rows both have IsCorrect 1 when the shuffle put the block "high" *)
(* before the block "size", and both have IsCorrect 0 when it put "size"   *)
(* first: the first trial presented is then the size row, whose correct    *)
(* key is 2.                                                               *)
(***************************************************************************)
C11_EndToEndCorrectIffHighFirst ==
    EndToEndSession =>
        LET highFirst == IndexOf(condition, "high") < IndexOf(condition, "size")
            ok == IF highFirst THEN "1" ELSE "0"
        IN  /\ IsCorrectOf(ResultRows[1]) = ok
            /\ IsCorrectOf(ResultRows[2]) = ok
            /\ CorrectOf(ResultRows[1]) = (IF highFirst THEN "1" ELSE "2")

\* the end-to-end session run to its end with the block "high" first
C11_Witness ==
    /\ pc = "done"
    /\ EndToEndSession
    /\ presented = <<HighRow, SizeRow>>
    /\ IsCorrectOf(ResultRows[1]) = "1"
    /\ IsCorrectOf(ResultRows[2]) = "1"

(***************************************************************************)
(* C12.  Whatever the shuffle of the block order gave: the break message   *)
(* is shown after each of the first five blocks presented (the briefing of *)
(* the second to sixth block is reached from a break only) and never after *)
(* the last one (the end screen is reached from the sixth block's last     *)
(* fixation pause, or from its briefing when it has no trial, and no break *)
(* is ever due after the sixth block).                                     *)
(***************************************************************************)
C12_BreakAfterAllButLast ==
    /\ pc = "break" => blk \in 1..5
    /\ (pc = "brief" /\ blk > 0) =>
          /\ blk \in 1..5
          /\ lastWait = "break"
          /\ screen = "break"
    /\ pc = "end" =>
          /\ blk = 6
          /\ lastWait \in {"pause", "brief"}
          /\ screen # "break"

\* the end screen is due right after the last trial of a sixth block that is
\* not the sixth name of line 61, with a trial shown in an earlier block too
C12_Witness ==
    /\ pc = "end"
    /\ lastWait = "pause"
    /\ KeyOf(6) = "high"
    /\ Len(presented) = 2
    /\ Field(presented[1], 0) # "high"

\* the text of the instruction screen of block b (line 107), as the model
\* keeps it
BriefOf(b) == "brief: " \o Similarity(KeyOf(b))

\* the rows (trial rows or result rows: the condition is the first column of
\* both) come block by block, in the order the shuffle gave the conditions
InBlockOrder(rows) ==
    \A i, j \in 1..Len(rows) :
        i < j => IndexOf(condition, rows[i][1]) <= IndexOf(condition, rows[j][1])

\* the rows of one condition are next to each other
Contiguous(rows) ==
    \A i, j, k \in 1..Len(rows) :
        (i < j /\ j < k /\ rows[i][1] = rows[k][1]) => rows[j][1] = rows[i][1]

\* the block counter moves only by one, in the step that shows the next
\* block's instruction screen and waits on it
BlockStartsWithBrief ==
    blk' # blk =>
        /\ blk' = blk + 1
        /\ trial' = 0
        /\ lastWait' = "brief"
        /\ pc' # "terminated" => screen' = BriefOf(blk')

\* a trial is shown only for a row of the current block's condition, the
\* first of them while the block's instruction screen is still up
TrialInItsBlock ==
    presented' # presented =>
        /\ blk' = blk
        /\ Len(presented') = Len(presented) + 1
        /\ Field(Last(presented'), 0) = KeyOf(blk)
        /\ trial = 0 => (lastWait = "brief" /\ screen = BriefOf(blk))
        /\ trial > 0 => (lastWait = "pause" /\ Field(Last(presented), 0) = KeyOf(blk))

\* the blocks are the six conditions, each once
SixBlocks ==
    Bucketed =>
        /\ Len(data_dict) = 6
        /\ {KeyOf(i) : i \in 1..6} = Range(Conditions)
        /\ \A i \in 1..6 : KeyOf(i) = condition[i]
        /\ blk \in 0..6
        /\ pc \in {"end", "done"} => blk = 6

(***************************************************************************)
(* C13.  Each of the six conditions is presented as a block exactly once   *)
(* (the blocks are the six conditions in the shuffled order and the block  *)
(* counter goes through them one by one, up to six when the session runs   *)
(* to its end); every block starts with its instruction screen before any  *)
(* of its trials; the trials of one condition are presented consecutively, *)
(* block after block, so the result rows of one condition are contiguous   *)
(* in the output file.                                                     *)
(***************************************************************************)
C13_BlocksOnceAndContiguous ==
    [][/\ BlockStartsWithBrief
       /\ TrialInItsBlock
       /\ SixBlocks'
       /\ InBlockOrder(presented') /\ Contiguous(presented')
       /\ InBlockOrder(ResultRows') /\ Contiguous(ResultRows')]_vars

\* a finished session whose two trials were shown in the order opposite to
\* the file's, because the shuffle put the second row's block first
C13_Witness ==
    /\ pc = "done"
    /\ Len(data) = 2
    /\ presented = <<data[2], data[1]>>
    /\ Field(data[1], 0) # Field(data[2], 0)
    /\ Len(ResultRows) = 2

\* the step is a trial whose key wait timed out
TimedOutTrial == pc = "trial" /\ presented' # presented /\ stim_keys' = None

\* an earlier trial left a keypress in answer and rt
AnsweredBefore == answer \in AnswerKeys /\ rt # "NA"

(***************************************************************************)
(* C14, as claimed.  On timeout the answer and reaction time variables of  *)
(* the previous trial are not reset: a trial that times out after an       *)
(* answered trial leaves them as they were, and its row carries them.      *)
(***************************************************************************)
C14_TimeoutKeepsStale ==
    [][(TimedOutTrial /\ AnsweredBefore) =>
          (answer' = answer \/ rt' = rt)]_vars

(***************************************************************************)
(* C14, amended.  On timeout the answer, reaction time and correctness     *)
(* variables are reset (answer empty, rt "NA", iscorrect 0) before the row *)
(* is written: the row of a timed-out trial has an empty Answer and RT     *)
(* "NA" and never carries the answer or reaction time of an earlier trial. *)
(***************************************************************************)
C14_TimeoutResets ==
    [][TimedOutTrial =>
          /\ answer' = ""
          /\ rt' = "NA"
          /\ iscorrect' = 0
          /\ pc' \in {"pause", "error"}
          /\ pc' = "pause" =>
                /\ Len(ResultRows') = Len(ResultRows) + 1
                /\ AnswerOf(Last(ResultRows')) = ""
                /\ RtOf(Last(ResultRows')) = "NA"
                /\ AnsweredBefore =>
                      /\ AnswerOf(Last(ResultRows')) # answer
                      /\ RtOf(Last(ResultRows')) # rt]_vars

\* a trial timed out after a trial answered with two keypresses, and its row
\* is written
C14_Witness ==
    /\ pc = "pause"
    /\ stim_keys = None
    /\ Len(ResultRows) = 2
    /\ AnswerOf(ResultRows[1]) = "2"
    /\ RtOf(ResultRows[1]) = RtText(2)
    /\ rt = "NA"
    /\ answer = ""

\* an escape was pressed during the fixation pause that has just ended: the
\* key wait of the trial before it had emptied the buffer
EscapeInPause == lastWait = "pause" /\ kbEscape

(***************************************************************************)
(* C15, as claimed.  An escape pressed during the fixation pause after a   *)
(* trial has no effect: whatever comes next (a trial, a break, the end     *)
(* screen), the session can go on past it without terminating.             *)
(***************************************************************************)
C15_EscapeInPauseIsLost ==
    EscapeInPause => ENABLED (Next /\ pc' # "terminated")

(***************************************************************************)
(* C15, amended.  An escape pressed during the fixation pause after a      *)
(* trial has no effect when another trial of the block follows (its key    *)
(* wait empties the buffer, the trial is presented and the session can go  *)
(* on) or when the end screen follows (the session closes normally).  When *)
(* the pause is the last of a block that is followed by a break, the       *)
(* escape stays in the buffer and the check after the break terminates the *)
(* session.  An escape pressed during the end screen has no effect.        *)
(***************************************************************************)
C15_EscapeInPauseLostUnlessBreak ==
    /\ (EscapeInPause /\ pc = "trial") =>
          /\ ENABLED (Trial /\ pc' \in {"pause", "error"})
          /\ ~ENABLED (Trial /\ kbEscape')
          /\ HasField(BucketOf(blk)[trial + 1], 4) =>
                ~ENABLED (Trial /\ presented' = presented)
    /\ (EscapeInPause /\ pc = "break") =>
          /\ ENABLED Break
          /\ ~ENABLED (Break /\ pc' # "terminated")
    /\ (EscapeInPause /\ pc = "end") =>
          /\ ENABLED EndScreen
          /\ ~ENABLED (EndScreen /\ pc' # "done")
    /\ lastWait = "end" => (pc = "done" /\ ~ENABLED Next)

\* an escape pressed during the pause after the only trial of a block, with
\* the break due next
C15_Witness ==
    /\ EscapeInPause
    /\ pc = "break"
    /\ Len(ResultRows) = 1
    /\ Len(data) = 2

\* the statements before the result file is opened
BeforeCreate ==
    \/ pc \in {"dialog", "load", "create"}
    \/ pc = "error" /\ error \in {"NameError", "FileNotFoundError"}

(***************************************************************************)
(* C16.  Whenever the output file exists, its content is the fixed header  *)
(* line followed by one row per completed trial (a trial ended neither by  *)
(* escape nor by an error), in presentation order.  The header is there    *)
(* once, as the first line, from before the start screen on; a session     *)
(* escaped at the start screen or anywhere before the first trial leaves a *)
(* file that holds the header only.                                        *)
(***************************************************************************)
C16_HeaderThenRows ==
    /\ outFile.exists <=> ~BeforeCreate
    /\ outFile.exists =>
          /\ Len(outFile.lines) >= 1
          /\ outFile.lines[1] = ResultHeader
          /\ Count(outFile.lines, ResultHeader) = 1
          /\ RowsMatchTrials(IF EscapedInTrial \/ FailedInTrial THEN 1 ELSE 0)
          /\ pc = "start" => (outFile.lines = <<ResultHeader>> /\ lastWait = "dialog")
          /\ presented = <<>> => outFile.lines = <<ResultHeader>>
          /\ (pc = "terminated" /\ lastWait \in {"start", "initfix"}) =>
                outFile.lines = <<ResultHeader>>
    /\ lastWait \notin {"none", "dialog"} => outFile.exists

\* escape at the start screen of a session that had two trials to present
C16_Witness ==
    /\ pc = "terminated"
    /\ lastWait = "start"
    /\ Len(data) = 2
    /\ outFile.exists
    /\ outFile.lines = <<ResultHeader>>

(***************************************************************************)
(* C17.  In every result row Answer is one of "", "1", "2", "3", and RT is *)
(* the marker "NA" if and only if Answer is empty.  When the key wait of a *)
(* trial returned keypresses, one or several, the Answer, RT and IsCorrect *)
(* of the row written for it are those of the last keypress returned.      *)
(***************************************************************************)
C17_RowFromLastKeypress ==
    /\ \A i \in 1..Len(ResultRows) :
          /\ AnswerOf(ResultRows[i]) \in {""} \cup AnswerKeys
          /\ RtOf(ResultRows[i]) = "NA" <=> AnswerOf(ResultRows[i]) = ""
    /\ (pc = "pause" /\ stim_keys # None) =>
          LET key == Last(stim_keys)
              line == Last(ResultRows)
          IN  /\ AnswerOf(line) = key.name
              /\ RtOf(line) = key.rt
              /\ IsCorrectOf(line) =
                    (IF key.name = CorrectOf(line) THEN "1" ELSE "0")

\* the key wait returned the correct key first and a wrong key after it: the
\* row has the second key, its reaction time, and IsCorrect 0
C17_Witness ==
    /\ pc = "pause"
    /\ Len(stim_keys) = 2
    /\ stim_keys[1].name = CorrectOf(Last(ResultRows))
    /\ AnswerOf(Last(ResultRows)) = stim_keys[2].name
    /\ RtOf(Last(ResultRows)) = RtText(2)
    /\ IsCorrectOf(Last(ResultRows)) = "0"

====
